---- MODULE Spec2Model ----
(***************************************************************************)
(* Verification model of the zero-knowledge proofs of paillier-zk:         *)
(*   log*  : group_element_vs_paillier_encryption_in_range.rs              *)
(*   aff-g : paillier_affine_operation_in_range.rs                         *)
(* The big integers, the Paillier keys, the Ring-Pedersen modulus and the  *)
(* curve order are scaled down so that every value is a TLC integer; the   *)
(* arithmetic (modular exponentiation, plain-integer responses, byte       *)
(* encodings) is computed as the code computes it.                         *)
(***************************************************************************)
EXTENDS Integers, Sequences, FiniteSets, TLC

\* ------------------------------------------------------------- parameters
\* lib.rs: L and EPSILON (228 and 322 in the source, scaled).
L == 2
EPSILON == 2
\* Width of the aff-g challenge: the Sha512 digest (512 bits in the source, scaled).
HashBits == 3
\* Order q of the curve group of log* (the generic parameter C: Curve).
CurveOrder == 5
\* How many prove calls the caller makes with one PrivateCommitment at most.
MaxProves == 2

\* ------------------------------------------------------------- big integers
RECURSIVE Pow2(_)
Pow2(n) == IF n = 0 THEN 1 ELSE 2 * Pow2(n - 1)

\* BigNumber::one() << (L + EPSILON), and << L
TwoToLE == Pow2(L + EPSILON)
TwoToL == Pow2(L)

MulStep(h, b, e, m) ==
    IF e % 2 = 1 THEN (((h * h) % m) * (b % m)) % m ELSE (h * h) % m

\* BigNumber::modpow for a non-negative exponent
RECURSIVE ModPow(_, _, _)
ModPow(b, e, m) ==
    IF e = 0 THEN 1 % m ELSE MulStep(ModPow(b, e \div 2, m), b, e, m)

RECURSIVE Gcd(_, _)
Gcd(a, b) == IF b = 0 THEN a ELSE Gcd(b, a % b)

\* BigNumber::to_bytes: minimal big-endian bytes (zero is one zero byte)
RECURSIVE ToBytes(_)
ToBytes(n) ==
    IF n < 256 THEN <<n>> ELSE Append(ToBytes(n \div 256), n % 256)

\* BigNumber::from_slice: big-endian bytes to integer
RECURSIVE FromBytes(_)
FromBytes(bs) ==
    IF Len(bs) = 0 THEN 0
    ELSE 256 * FromBytes(SubSeq(bs, 1, Len(bs) - 1)) + bs[Len(bs)]

\* ------------------------------------------------------------- common.rs
\* combine(a, x, b, y, M) = a^x * b^y mod M
combine(a, x, b, y, m) == (ModPow(a, x, m) * ModPow(b, y, m)) % m

\* convert_scalar: big-endian bytes of x reduced modulo the curve order
convert_scalar(x) == FromBytes(ToBytes(x)) % CurveOrder

\* gen_inversible(N, rng): the elements of [0, N) coprime to N
Inversible(n) == {v \in 0..(n - 1) : Gcd(v, n) = 1}

\* ------------------------------------------------------------- curve
\* A prime-order group written additively; a point is its discrete
\* logarithm to the generator.
Generator == 1
PointAdd(p, q) == (p + q) % CurveOrder
PointMul(p, k) == (p * k) % CurveOrder
\* Point::to_bytes(true): fixed-length compressed encoding
PointBytes(p) == <<2, p>>

\* ------------------------------------------------------------- Paillier
\* An absent value (Option::None) is the empty sequence, Some(v) is <<v>>.
None == <<>>
Some(v) == <<v>>
IsSome(o) == Len(o) = 1
Get(o) == o[1]

\* EncryptionKey: n and nn = n^2
Key(n) == [n |-> n, nn |-> n * n]
\* EncryptionKey::to_bytes
KeyBytes(k) == ToBytes(k.n)

\* libpaillier's range test: 1 <= a < n
ModIn(a, n) == 1 <= a /\ a < n

\* EncryptionKey::encrypt(bytes, Some(nonce)) -> Option<Ciphertext>
Encrypt(k, bytes, r) ==
    IF ModIn(FromBytes(bytes), k.n) /\ ModIn(r, k.n)
    THEN Some((ModPow(k.n + 1, FromBytes(bytes), k.nn) * ModPow(r, k.n, k.nn)) % k.nn)
    ELSE None

\* EncryptionKey::mul(c, a) -> Option<Ciphertext>
PMul(k, c, a) ==
    IF ModIn(c, k.nn) /\ ModIn(a, k.n) THEN Some(ModPow(c, a, k.nn)) ELSE None

\* EncryptionKey::add(c1, c2) -> Option<Ciphertext>
PAdd(k, c1, c2) ==
    IF ModIn(c1, k.nn) /\ ModIn(c2, k.nn) THEN Some((c1 * c2) % k.nn) ELSE None

\* ------------------------------------------------------------- transcript hash
\* The hash is a member, fixed for a run by hkey, of a family of functions of
\* the absorbed bytes; every byte and its position count.
RECURSIVE WSum(_, _)
WSum(bs, i) ==
    IF i > Len(bs) THEN 0 ELSE (i * bs[i] + WSum(bs, i + 1)) % 1000

RECURSIVE Concat(_)
Concat(ss) == IF Len(ss) = 0 THEN <<>> ELSE Head(ss) \o Concat(Tail(ss))

\* Sha512 over the concatenation: HashBits bits, never fails
Sha(hkey, bs) == (hkey + WSum(bs, 1)) % Pow2(HashBits)

\* Scalar::hash_concat(tag, msgs): a scalar below the curve order, or a failure
HashToScalar(hkey, tag, bs) ==
    IF (hkey + WSum(tag \o bs, 1)) % (CurveOrder + 1) = CurveOrder
    THEN None
    ELSE Some((hkey + WSum(tag \o bs, 1)) % (CurveOrder + 1))

\* Scalar::to_be_bytes
ScalarBytes(k) == ToBytes(k)

\* ------------------------------------------------------------- results
\* ProtocolError and InvalidProof of common.rs; aff-g reports a check by a
\* message ("check1" .. "range check7") and unwraps the Paillier results.
Ok == [kind |-> "Ok", idx |-> 0]
EncryptionFailed == [kind |-> "EncryptionFailed", idx |-> 0]
HashFailed == [kind |-> "HashFailed", idx |-> 0]
EqualityCheckFailed(i) == [kind |-> "EqualityCheckFailed", idx |-> i]
RangeCheckFailed(i) == [kind |-> "RangeCheckFailed", idx |-> i]
Check(i) == [kind |-> "check", idx |-> i]
RangeCheck(i) == [kind |-> "range check", idx |-> i]
Panic == [kind |-> "panic", idx |-> 0]

\* ------------------------------------------------------------- RNG draws
\* BigNumber::from_rng(bound, rng) returns a value of [0, bound); the draws
\* explored are the ends of that range.
FromRng(bound) == {0, 1, bound - 1}
\* The same for the wide masks, whose value only enters an exponent.
FromRngWide(bound) == {1, bound - 1}

\* ------------------------------------------------------------- log*: commit
\* commit building D with the mask of S
LogCommitment_MaskOfS(aux, data, pdata, rnd, a) ==
    [s |-> combine(aux.s, pdata.x, aux.t, rnd.mu, aux.rsa_modulo),
     a |-> a,
     y |-> PointMul(Generator, convert_scalar(rnd.alpha)),
     d |-> combine(aux.s, rnd.alpha, aux.t, rnd.mu, aux.rsa_modulo)]

LogCommitment(aux, data, pdata, rnd, a) ==
    [s |-> combine(aux.s, pdata.x, aux.t, rnd.mu, aux.rsa_modulo),
     a |-> a,
     y |-> PointMul(Generator, convert_scalar(rnd.alpha)),
     d |-> combine(aux.s, rnd.alpha, aux.t, rnd.gamma, aux.rsa_modulo)]

\* commit drawing mu and gamma with each other's bound
LogDraws_SwappedBounds(aux, data) ==
    [alpha : FromRng(TwoToLE),
     mu : FromRngWide(TwoToLE * aux.rsa_modulo),
     r : {v \in Inversible(data.key0.n) : v = 3},
     gamma : FromRngWide(TwoToL * aux.rsa_modulo)]

\* The masks commit may draw: alpha, mu, r, gamma in the order of the code.
LogDraws(aux, data) ==
    [alpha : FromRng(TwoToLE),
     mu : FromRngWide(TwoToL * aux.rsa_modulo),
     r : {v \in Inversible(data.key0.n) : v = 3},
     gamma : FromRngWide(TwoToLE * aux.rsa_modulo)]

\* commit: Ok((commitment, private_commitment)) or Err(EncryptionFailed)
LogCommit(aux, data, pdata, rnd) ==
    LET a == Encrypt(data.key0, ToBytes(rnd.alpha), rnd.r) IN
    IF IsSome(a)
    THEN [err |-> Ok,
          comm |-> Some(LogCommitment(aux, data, pdata, rnd, Get(a))),
          pcomm |-> Some(rnd)]
    ELSE [err |-> EncryptionFailed, comm |-> None, pcomm |-> None]

\* ------------------------------------------------------------- log*: challenge
Tag == <<116>>

\* the transcript absorbing the commitment before the data
LogTranscript_CommitmentFirst(aux, data, commitment) ==
    Concat(<<ToBytes(aux.s), ToBytes(aux.t), ToBytes(aux.rsa_modulo),
             ToBytes(commitment.s), ToBytes(commitment.a),
             PointBytes(commitment.y), ToBytes(commitment.d),
             KeyBytes(data.key0), ToBytes(data.c), PointBytes(data.x)>>)

LogTranscript(aux, data, commitment) ==
    Concat(<<ToBytes(aux.s), ToBytes(aux.t), ToBytes(aux.rsa_modulo),
             KeyBytes(data.key0), ToBytes(data.c), PointBytes(data.x),
             ToBytes(commitment.s), ToBytes(commitment.a),
             PointBytes(commitment.y), ToBytes(commitment.d)>>)

\* challenge: Ok(BigNumber) or Err(HashFailed)
LogChallenge(hkey, tag, aux, data, commitment) ==
    LET scalar == HashToScalar(hkey, tag, LogTranscript(aux, data, commitment)) IN
    IF IsSome(scalar) THEN Some(FromBytes(ScalarBytes(Get(scalar)))) ELSE None

\* ------------------------------------------------------------- log*: prove
\* prove answering z3 with the mask gamma in the place of mu
LogProve_WrongMask(data, pdata, pcm, e) ==
    [z1 |-> pcm.alpha + e * pdata.x,
     z2 |-> combine(pcm.r, 1, pdata.nonce, e, data.key0.n),
     z3 |-> pcm.gamma + e * pcm.gamma]

LogProve(data, pdata, pcm, e) ==
    [z1 |-> pcm.alpha + e * pdata.x,
     z2 |-> combine(pcm.r, 1, pdata.nonce, e, data.key0.n),
     z3 |-> pcm.gamma + e * pcm.mu]

\* ------------------------------------------------------------- log*: verify
LogLhs1(data, proof) == Encrypt(data.key0, ToBytes(proof.z1), proof.z2)

LogCheck1(data, commitment, e, proof) ==
    Get(LogLhs1(data, proof)) = combine(commitment.a, 1, data.c, e, data.key0.nn)

LogCheck2(data, commitment, e, proof) ==
    PointMul(Generator, convert_scalar(proof.z1))
        = PointAdd(commitment.y, PointMul(data.x, convert_scalar(e)))

LogCheck3(aux, commitment, e, proof) ==
    combine(aux.s, proof.z1, aux.t, proof.z3, aux.rsa_modulo)
        = combine(commitment.d, 1, commitment.s, e, aux.rsa_modulo)

LogCheck4(proof) == proof.z1 <= TwoToLE

\* verify without its last line, the range check
LogVerify_NoRange(aux, data, commitment, e, proof) ==
    IF ~IsSome(LogLhs1(data, proof)) THEN EncryptionFailed
    ELSE IF ~LogCheck1(data, commitment, e, proof) THEN EqualityCheckFailed(1)
    ELSE IF ~LogCheck2(data, commitment, e, proof) THEN EqualityCheckFailed(2)
    ELSE IF ~LogCheck3(aux, commitment, e, proof) THEN EqualityCheckFailed(3)
    ELSE Ok

\* verify making the range check before the equality checks
LogVerify_RangeFirst(aux, data, commitment, e, proof) ==
    IF ~LogCheck4(proof) THEN RangeCheckFailed(4)
    ELSE IF ~IsSome(LogLhs1(data, proof)) THEN EncryptionFailed
    ELSE IF ~LogCheck1(data, commitment, e, proof) THEN EqualityCheckFailed(1)
    ELSE IF ~LogCheck2(data, commitment, e, proof) THEN EqualityCheckFailed(2)
    ELSE IF ~LogCheck3(aux, commitment, e, proof) THEN EqualityCheckFailed(3)
    ELSE Ok

LogVerify(aux, data, commitment, e, proof) ==
    IF ~IsSome(LogLhs1(data, proof)) THEN EncryptionFailed
    ELSE IF ~LogCheck1(data, commitment, e, proof) THEN EqualityCheckFailed(1)
    ELSE IF ~LogCheck2(data, commitment, e, proof) THEN EqualityCheckFailed(2)
    ELSE IF ~LogCheck3(aux, commitment, e, proof) THEN EqualityCheckFailed(3)
    ELSE IF ~LogCheck4(proof) THEN RangeCheckFailed(4)
    ELSE Ok

\* ------------------------------------------------------------- log*: compute_proof
\* compute_proof going on to prove, with challenge 0, when challenge failed
LogComputeProof_IgnoreHashFailure(hkey, tag, aux, data, pdata, rnd) ==
    LET c == LogCommit(aux, data, pdata, rnd) IN
    IF c.err # Ok
    THEN [err |-> c.err, comm |-> None, chal |-> None, proof |-> None]
    ELSE LET e == LogChallenge(hkey, tag, aux, data, Get(c.comm))
             v == IF IsSome(e) THEN e ELSE Some(0) IN
         [err |-> Ok, comm |-> c.comm, chal |-> v,
          proof |-> Some(LogProve(data, pdata, Get(c.pcomm), Get(v)))]

LogComputeProof(hkey, tag, aux, data, pdata, rnd) ==
    LET c == LogCommit(aux, data, pdata, rnd) IN
    IF c.err # Ok
    THEN [err |-> c.err, comm |-> None, chal |-> None, proof |-> None]
    ELSE LET e == LogChallenge(hkey, tag, aux, data, Get(c.comm)) IN
         IF ~IsSome(e)
         THEN [err |-> HashFailed, comm |-> None, chal |-> None, proof |-> None]
         ELSE [err |-> Ok, comm |-> c.comm, chal |-> e,
               proof |-> Some(LogProve(data, pdata, Get(c.pcomm), Get(e)))]

\* ------------------------------------------------------------- aff-g: commit
\* The masks commit may draw, in the order of the code: alpha, beta, r, r_y,
\* gamma, m, delta, mu.
AffDraws(aux, data) ==
    [alpha : FromRng(TwoToLE),
     beta : FromRng(TwoToLE),
     r : {v \in Inversible(data.key0.n) : v = 3},
     r_y : {v \in Inversible(data.key1.n) : v = 2},
     gamma : {TwoToLE * aux.rsa_modulo - 1},
     m : FromRngWide(TwoToL * aux.rsa_modulo),
     delta : {TwoToLE * aux.rsa_modulo - 1},
     mu : {TwoToL * aux.rsa_modulo - 1}]

AffA(data, rnd) ==
    IF IsSome(Encrypt(data.key0, ToBytes(rnd.beta), rnd.r))
       /\ IsSome(PMul(data.key0, data.c, rnd.alpha))
    THEN PAdd(data.key0, Get(PMul(data.key0, data.c, rnd.alpha)),
              Get(Encrypt(data.key0, ToBytes(rnd.beta), rnd.r)))
    ELSE None

AffBy(data, rnd) == Encrypt(data.key1, ToBytes(rnd.beta), rnd.r_y)

AffCommitment(aux, data, pdata, rnd, a, by) ==
    [a |-> a,
     b_x |-> ModPow(data.g, rnd.alpha, data.q),
     b_y |-> by,
     e |-> combine(aux.s, rnd.alpha, aux.t, rnd.gamma, aux.rsa_modulo),
     s |-> combine(aux.s, pdata.x, aux.t, rnd.m, aux.rsa_modulo),
     f |-> combine(aux.s, rnd.beta, aux.t, rnd.delta, aux.rsa_modulo),
     t |-> combine(aux.s, pdata.y, aux.t, rnd.mu, aux.rsa_modulo)]

\* commit: (commitment, private_commitment); every Paillier result is unwrapped
AffCommit(aux, data, pdata, rnd) ==
    LET a == AffA(data, rnd)
        by == AffBy(data, rnd) IN
    IF IsSome(a) /\ IsSome(by)
    THEN [err |-> Ok,
          comm |-> Some(AffCommitment(aux, data, pdata, rnd, Get(a), Get(by))),
          pcomm |-> Some(rnd)]
    ELSE [err |-> Panic, comm |-> None, pcomm |-> None]

\* ------------------------------------------------------------- aff-g: challenge
AffTranscript(aux, data, commitment) ==
    Concat(<<ToBytes(aux.s), ToBytes(aux.t), ToBytes(aux.rsa_modulo),
             ToBytes(data.g), ToBytes(data.q), KeyBytes(data.key0),
             KeyBytes(data.key1), ToBytes(data.c), ToBytes(data.d),
             ToBytes(data.y), ToBytes(data.x),
             ToBytes(commitment.a), ToBytes(commitment.b_x),
             ToBytes(commitment.b_y), ToBytes(commitment.e),
             ToBytes(commitment.s), ToBytes(commitment.f),
             ToBytes(commitment.t)>>)

\* challenge: the digest as a BigNumber
AffChallenge(hkey, aux, data, commitment) ==
    Some(FromBytes(ToBytes(Sha(hkey, AffTranscript(aux, data, commitment)))))

\* ------------------------------------------------------------- aff-g: prove
\* prove answering z3 with the mask of T and z4 with the mask of S
AffProve_SwappedMasks(data, pdata, pcm, e) ==
    [z1 |-> pcm.alpha + e * pdata.x,
     z2 |-> pcm.beta + e * pdata.y,
     z3 |-> pcm.gamma + e * pcm.mu,
     z4 |-> pcm.delta + e * pcm.m,
     w |-> combine(pcm.r, 1, pdata.nonce, e, data.key0.n),
     w_y |-> combine(pcm.r_y, 1, pdata.nonce_y, e, data.key1.n)]

AffProve(data, pdata, pcm, e) ==
    [z1 |-> pcm.alpha + e * pdata.x,
     z2 |-> pcm.beta + e * pdata.y,
     z3 |-> pcm.gamma + e * pcm.m,
     z4 |-> pcm.delta + e * pcm.mu,
     w |-> combine(pcm.r, 1, pdata.nonce, e, data.key0.n),
     w_y |-> combine(pcm.r_y, 1, pdata.nonce_y, e, data.key1.n)]

\* ------------------------------------------------------------- aff-g: verify
AffLhs1(data, proof) ==
    IF IsSome(Encrypt(data.key0, ToBytes(proof.z2), proof.w))
       /\ IsSome(PMul(data.key0, data.c, proof.z1))
    THEN PAdd(data.key0, Get(PMul(data.key0, data.c, proof.z1)),
              Get(Encrypt(data.key0, ToBytes(proof.z2), proof.w)))
    ELSE None

AffLhs3(data, proof) == Encrypt(data.key1, ToBytes(proof.z2), proof.w_y)

AffCheck1(data, commitment, e, proof) ==
    Get(AffLhs1(data, proof)) = combine(commitment.a, 1, data.d, e, data.key0.nn)

AffCheck2(data, commitment, e, proof) ==
    ModPow(data.g, proof.z1, data.q) = combine(commitment.b_x, 1, data.x, e, data.q)

AffCheck3(data, commitment, e, proof) ==
    Get(AffLhs3(data, proof)) = combine(commitment.b_y, 1, data.y, e, data.key1.nn)

AffCheck4(aux, commitment, e, proof) ==
    combine(aux.s, proof.z1, aux.t, proof.z3, aux.rsa_modulo)
        = combine(commitment.e, 1, commitment.s, e, aux.rsa_modulo)

AffCheck5(aux, commitment, e, proof) ==
    combine(aux.s, proof.z2, aux.t, proof.z4, aux.rsa_modulo)
        = combine(commitment.f, 1, commitment.t, e, aux.rsa_modulo)

AffCheck6(proof) == proof.z1 <= TwoToLE

\* range check7 with a strict bound
AffCheck7_Strict(proof) == proof.z2 < TwoToLE

AffCheck7(proof) == proof.z2 <= TwoToLE

\* verify making the two range checks in the other order
AffVerify_RangeSwapped(aux, data, commitment, e, proof) ==
    IF ~IsSome(AffLhs1(data, proof)) THEN Panic
    ELSE IF ~AffCheck1(data, commitment, e, proof) THEN Check(1)
    ELSE IF ~AffCheck2(data, commitment, e, proof) THEN Check(2)
    ELSE IF ~IsSome(AffLhs3(data, proof)) THEN Panic
    ELSE IF ~AffCheck3(data, commitment, e, proof) THEN Check(3)
    ELSE IF ~AffCheck4(aux, commitment, e, proof) THEN Check(4)
    ELSE IF ~AffCheck5(aux, commitment, e, proof) THEN Check(5)
    ELSE IF ~AffCheck7(proof) THEN RangeCheck(7)
    ELSE IF ~AffCheck6(proof) THEN RangeCheck(6)
    ELSE Ok

AffVerify(aux, data, commitment, e, proof) ==
    IF ~IsSome(AffLhs1(data, proof)) THEN Panic
    ELSE IF ~AffCheck1(data, commitment, e, proof) THEN Check(1)
    ELSE IF ~AffCheck2(data, commitment, e, proof) THEN Check(2)
    ELSE IF ~IsSome(AffLhs3(data, proof)) THEN Panic
    ELSE IF ~AffCheck3(data, commitment, e, proof) THEN Check(3)
    ELSE IF ~AffCheck4(aux, commitment, e, proof) THEN Check(4)
    ELSE IF ~AffCheck5(aux, commitment, e, proof) THEN Check(5)
    ELSE IF ~AffCheck6(proof) THEN RangeCheck(6)
    ELSE IF ~AffCheck7(proof) THEN RangeCheck(7)
    ELSE Ok

\* ------------------------------------------------------------- aff-g: compute_proof
AffComputeProof(hkey, aux, data, pdata, rnd) ==
    LET c == AffCommit(aux, data, pdata, rnd) IN
    IF c.err # Ok
    THEN [err |-> Panic, comm |-> None, chal |-> None, proof |-> None]
    ELSE LET e == AffChallenge(hkey, aux, data, Get(c.comm)) IN
         [err |-> Ok, comm |-> c.comm, chal |-> e,
          proof |-> Some(AffProve(data, pdata, Get(c.pcomm), Get(e)))]

\* ------------------------------------------------------------- inputs
\* Paillier moduli of key0 and key1, the Ring-Pedersen modulus, and the
\* group (g, q) of aff-g.
Key0N == 143
Key1N == 145
RsaModulo == 35
AffG == 2
AffQ == 11

AuxSet == {[s |-> 2, t |-> 3, rsa_modulo |-> RsaModulo],
           [s |-> 4, t |-> 9, rsa_modulo |-> RsaModulo]}

\* Witnesses: within L bits, just above 2^(L+EPSILON), 2^(L+EPSILON+1), N0 - 1
LogWitnesses == {0, 1, TwoToL - 1, TwoToLE + 1, 2 * TwoToLE, Key0N - 1}
LogNonces == {2}

LogStatements ==
    {[data |-> [key0 |-> Key(Key0N),
                c |-> Get(Encrypt(Key(Key0N), ToBytes(x), n)),
                x |-> PointMul(Generator, convert_scalar(x))],
      pdata |-> [x |-> x, nonce |-> n]] :
        <<x, n>> \in {w \in LogWitnesses \X LogNonces :
                         IsSome(Encrypt(Key(Key0N), ToBytes(w[1]), w[2]))}}

\* The plaintext of C, and the nonces of C, of the addend under key0 and of Y
AffPlainC == 100
AffNonceC == 3
AffNonce == 2
AffNonceY == 4
AffWitnesses == {<<1, 1>>, <<TwoToL - 1, TwoToL - 1>>, <<1, TwoToLE + 2>>,
                 <<TwoToLE + 1, TwoToLE + 2>>, <<2 * TwoToLE, 4 * TwoToLE>>}

AffC == Get(Encrypt(Key(Key0N), ToBytes(AffPlainC), AffNonceC))

AffD(x, y) ==
    IF IsSome(PMul(Key(Key0N), AffC, x))
       /\ IsSome(Encrypt(Key(Key0N), ToBytes(y), AffNonce))
    THEN PAdd(Key(Key0N), Get(PMul(Key(Key0N), AffC, x)),
              Get(Encrypt(Key(Key0N), ToBytes(y), AffNonce)))
    ELSE None

AffStatements ==
    {[data |-> [g |-> AffG, q |-> AffQ, key0 |-> Key(Key0N), key1 |-> Key(Key1N),
                c |-> AffC,
                d |-> Get(AffD(w[1], w[2])),
                y |-> Get(Encrypt(Key(Key1N), ToBytes(w[2]), AffNonceY)),
                x |-> ModPow(AffG, w[1], AffQ)],
      pdata |-> [x |-> w[1], y |-> w[2], nonce |-> AffNonce, nonce_y |-> AffNonceY]] :
        w \in {v \in AffWitnesses :
                    /\ IsSome(AffD(v[1], v[2]))
                    /\ IsSome(Encrypt(Key(Key1N), ToBytes(v[2]), AffNonceY))}}

\* Challenges a caller passes of its own choice instead of the hashed one:
\* a value that no hash-derived scalar of the curve equals
PickSet == {CurveOrder + 1}

\* What the caller changes in the arguments of verify
LogTampers == {"none", "aux.s+N", "aux.s+1", "aux.t+1", "data.c+NN", "data.c+1",
               "data.x+G", "comm.d+N", "comm.a+1", "chal+1"}
AffTampers == {"none", "aux.s+N", "aux.s+1", "data.x+q", "data.x+1", "data.c+1",
               "data.d+NN", "data.y+1", "comm.e+N", "comm.b_y+1", "chal+1"}

TAux(a, tm) ==
    CASE tm = "aux.s+N" -> [a EXCEPT !.s = @ + a.rsa_modulo]
      [] tm = "aux.s+1" -> [a EXCEPT !.s = @ + 1]
      [] tm = "aux.t+1" -> [a EXCEPT !.t = @ + 1]
      [] OTHER -> a

TData(d, tm) ==
    CASE tm = "data.c+NN" -> [d EXCEPT !.c = @ + d.key0.nn]
      [] tm = "data.c+1" -> [d EXCEPT !.c = @ + 1]
      [] tm = "data.x+G" -> [d EXCEPT !.x = PointAdd(@, Generator)]
      [] tm = "data.x+q" -> [d EXCEPT !.x = @ + d.q]
      [] tm = "data.x+1" -> [d EXCEPT !.x = @ + 1]
      [] tm = "data.d+NN" -> [d EXCEPT !.d = @ + d.key0.nn]
      [] tm = "data.y+1" -> [d EXCEPT !.y = @ + 1]
      [] OTHER -> d

TComm(c, a, tm) ==
    CASE tm = "comm.d+N" -> [c EXCEPT !.d = @ + a.rsa_modulo]
      [] tm = "comm.a+1" -> [c EXCEPT !.a = @ + 1]
      [] tm = "comm.e+N" -> [c EXCEPT !.e = @ + a.rsa_modulo]
      [] tm = "comm.b_y+1" -> [c EXCEPT !.b_y = @ + 1]
      [] OTHER -> c

TChal(e, tm) == IF tm = "chal+1" THEN e + 1 ELSE e

\* ------------------------------------------------------------- state
VARIABLES
    proto,    \* "log" or "aff"
    hkey,     \* which hash function of the family this run uses
    aux,      \* Aux
    data,     \* Data
    pdata,    \* PrivateData
    comm,     \* the Commitment the caller holds, or None
    pcomm,    \* the PrivateCommitment the caller holds, or None
    chal,     \* the Challenge the caller holds, or None
    csrc,     \* where it came from: "none", "hash" (challenge) or "pick"
    proof,    \* the Proof the caller holds, or None
    proves,   \* prove calls made with the PrivateCommitment of this run
    answered, \* the challenges those calls answered
    ret,      \* what the last prover-side call returned: Ok or its error
    rng,      \* how many values have been drawn from the random source
    vargs,    \* the arguments of the verify call, or None
    result,   \* what verify returned, or None
    pc        \* "start", "committed", "challenged", "proved", "verified", "failed"

vars == <<proto, hkey, aux, data, pdata, comm, pcomm, chal, csrc, proof, proves,
          answered, ret, rng,
          vargs, result, pc>>

HashKeys(p) == IF p = "log" THEN 0..CurveOrder ELSE 0..(Pow2(HashBits) - 1)
Statements(p) == IF p = "log" THEN LogStatements ELSE AffStatements

Init ==
    /\ proto \in {"log", "aff"}
    /\ hkey \in HashKeys(proto)
    /\ aux \in AuxSet
    /\ \E st \in Statements(proto) : data = st.data /\ pdata = st.pdata
    /\ comm = None /\ pcomm = None /\ chal = None /\ proof = None
    /\ csrc = "none"
    /\ proves = 0
    /\ answered = {}
    /\ ret = Ok
    /\ rng = 0
    /\ vargs = None /\ result = None
    /\ pc = "start"

\* ------------------------------------------------------------- dispatch
Draws == IF proto = "log" THEN LogDraws(aux, data) ELSE AffDraws(aux, data)

CommitOp(rnd) ==
    IF proto = "log" THEN LogCommit(aux, data, pdata, rnd)
    ELSE AffCommit(aux, data, pdata, rnd)

ChallengeOp(a, d, c) ==
    IF proto = "log" THEN LogChallenge(hkey, Tag, a, d, c)
    ELSE AffChallenge(hkey, a, d, c)

ProveOp(pcm, e) ==
    IF proto = "log" THEN LogProve(data, pdata, pcm, e)
    ELSE AffProve(data, pdata, pcm, e)

VerifyOp(a, d, c, e, pf) ==
    IF proto = "log" THEN LogVerify(a, d, c, e, pf) ELSE AffVerify(a, d, c, e, pf)

ComputeProofOp(rnd) ==
    IF proto = "log" THEN LogComputeProof(hkey, Tag, aux, data, pdata, rnd)
    ELSE AffComputeProof(hkey, aux, data, pdata, rnd)

Tampers == IF proto = "log" THEN LogTampers ELSE AffTampers

\* ------------------------------------------------------------- actions
\* commit(aux, data, pdata, rng)
Commit ==
    /\ pc = "start"
    /\ \E rnd \in Draws :
        LET o == CommitOp(rnd) IN
        /\ comm' = o.comm
        /\ pcomm' = o.pcomm
        /\ ret' = o.err
        /\ rng' = rng + Cardinality(DOMAIN rnd)
        /\ pc' = IF o.err = Ok THEN "committed" ELSE "failed"
    /\ UNCHANGED <<proto, hkey, aux, data, pdata, chal, csrc, proof, proves,
                   answered, vargs, result>>

\* challenge(aux, data, commitment): the caller holds a commitment and masks
\* it may still answer with
Challenge ==
    /\ pc \in {"committed", "proved"}
    /\ IsSome(pcomm) /\ proves < MaxProves
    /\ IF IsSome(ChallengeOp(aux, data, Get(comm)))
       THEN /\ chal' = ChallengeOp(aux, data, Get(comm))
            /\ csrc' = "hash"
            /\ ret' = Ok
            /\ proof' = None
            /\ pc' = "challenged"
       ELSE /\ ret' = HashFailed
            /\ UNCHANGED <<chal, csrc, proof, pc>>
    /\ UNCHANGED <<proto, hkey, aux, data, pdata, comm, pcomm, proves, answered,
                   rng, vargs, result>>

\* The caller takes a challenge that is not the hash of the transcript (the
\* interactive protocol, or a challenge fixed before the commitment).
PickChallenge ==
    /\ pc \in {"start", "committed", "proved"}
    /\ pc # "start" => IsSome(pcomm) /\ proves < MaxProves
    /\ \E e \in PickSet : chal' = Some(e)
    /\ csrc' = "pick"
    /\ proof' = None
    /\ pc' = IF pc = "start" THEN "start" ELSE "challenged"
    /\ UNCHANGED <<proto, hkey, aux, data, pdata, comm, pcomm, proves, answered,
                   ret, rng, vargs, result>>

\* prove clearing the PrivateCommitment it was given
Prove_ClearingMasks ==
    /\ pc \in {"committed", "challenged"}
    /\ IsSome(pcomm) /\ IsSome(chal) /\ proves < MaxProves
    /\ proof' = Some(ProveOp(Get(pcomm), Get(chal)))
    /\ proves' = proves + 1
    /\ answered' = answered \cup {Get(chal)}
    /\ pc' = "proved"
    /\ pcomm' = None
    /\ UNCHANGED <<proto, hkey, aux, data, pdata, comm, chal, csrc, ret,
                   rng, vargs, result>>

\* prove(data, pdata, &pcomm, &challenge): the PrivateCommitment is borrowed
Prove ==
    /\ pc \in {"committed", "challenged"}
    /\ IsSome(pcomm) /\ IsSome(chal) /\ proves < MaxProves
    /\ proof' = Some(ProveOp(Get(pcomm), Get(chal)))
    /\ proves' = proves + 1
    /\ answered' = answered \cup {Get(chal)}
    /\ pc' = "proved"
    /\ UNCHANGED <<proto, hkey, aux, data, pdata, comm, pcomm, chal, csrc, ret,
                   rng, vargs, result>>

\* compute_proof(aux, data, pdata, rng): commit, challenge and prove in one
\* call; the PrivateCommitment is a local of the call
ComputeProof ==
    /\ pc = "start"
    /\ \E rnd \in Draws :
        LET o == ComputeProofOp(rnd) IN
        /\ comm' = o.comm
        /\ chal' = o.chal
        /\ csrc' = IF o.err = Ok THEN "hash" ELSE "none"
        /\ proof' = o.proof
        /\ ret' = o.err
        /\ pc' = IF o.err = Ok THEN "proved" ELSE "failed"
        /\ proves' = IF o.err = Ok THEN 1 ELSE 0
        /\ answered' = IF o.err = Ok THEN {Get(o.chal)} ELSE {}
        /\ rng' = rng + Cardinality(DOMAIN rnd)
    /\ pcomm' = None
    /\ UNCHANGED <<proto, hkey, aux, data, pdata, vargs, result>>

\* verify(aux, data, commitment, challenge, proof) on the values held, one
\* argument possibly changed
Verify ==
    /\ pc = "proved"
    /\ \E tm \in Tampers :
        LET v == [aux |-> TAux(aux, tm), data |-> TData(data, tm),
                  comm |-> TComm(Get(comm), aux, tm),
                  chal |-> TChal(Get(chal), tm), tamper |-> tm] IN
        /\ vargs' = Some(v)
        /\ result' = Some(VerifyOp(v.aux, v.data, v.comm, v.chal, Get(proof)))
    /\ pc' = "verified"
    /\ UNCHANGED <<proto, hkey, aux, data, pdata, comm, pcomm, chal, csrc, proof,
                   proves, answered, ret, rng>>

Next == Commit \/ Challenge \/ PickChallenge \/ Prove \/ ComputeProof \/ Verify

Spec == Init /\ [][Next]_vars

\* ------------------------------------------------------------- runs
\* verify has returned on the untouched output of the prover
Verified == pc = "verified"
Untampered == Verified /\ Get(vargs).tamper = "none"
\* ... and the challenge is the one challenge / compute_proof derived
HonestRun == Untampered /\ csrc = "hash"
\* The PrivateCommitment was a local of compute_proof
ViaComputeProof == proves = 1 /\ pcomm = None
\* The witness is within L bits
InRange ==
    IF proto = "log" THEN pdata.x < TwoToL
    ELSE pdata.x < TwoToL /\ pdata.y < TwoToL
\* The witness is above 2^(L+EPSILON)
AboveBound ==
    IF proto = "log" THEN pdata.x > TwoToLE
    ELSE pdata.x > TwoToLE /\ pdata.y > TwoToLE

\* ------------------------------------------------------------- C1
\* C1 (as claimed): in log*, for a witness of at most L bits and every draw of
\* commit, verify returns Ok on the output of compute_proof.
C1_Completeness ==
    (proto = "log" /\ HonestRun /\ InRange) => Get(result) = Ok

\* C1 (amended): on the output of compute_proof for a witness of at most L
\* bits, verify returns Ok exactly when the response z1 = alpha + e*x is at
\* most 2^(L+EPSILON), and RangeCheckFailed(4) otherwise; no equality check
\* fails (the verifier's encryption of z1 succeeding, else EncryptionFailed).
C1_CompletenessUpToRange ==
    (proto = "log" /\ HonestRun /\ InRange) =>
        Get(result) =
            IF ~(1 <= Get(proof).z1 /\ Get(proof).z1 < data.key0.n) THEN EncryptionFailed
            ELSE IF Get(proof).z1 <= TwoToLE THEN Ok
            ELSE RangeCheckFailed(4)

C1_Witness ==
    /\ proto = "log" /\ HonestRun /\ InRange /\ ViaComputeProof
    /\ Get(chal) >= 2 /\ pdata.x >= 2
    /\ Get(result) = Ok

\* ------------------------------------------------------------- C2
\* C2 (as claimed): in aff-g, for x and y of at most L bits, every draw of
\* commit and every value of the hash, verify returns Ok on the output of
\* compute_proof.
C2_Completeness ==
    (proto = "aff" /\ HonestRun /\ InRange) => Get(result) = Ok

\* C2 (as claimed), on the runs whose masks alpha and beta were drawn as 1
\* (alpha = z1 - e*x, beta = z2 - e*y): the rejection is not one of a mask
\* at the top of its range.
C2_CompletenessSmallMasks ==
    (/\ proto = "aff" /\ HonestRun /\ InRange
     /\ Get(proof).z1 - Get(chal) * pdata.x = 1
     /\ Get(proof).z2 - Get(chal) * pdata.y = 1) => Get(result) = Ok

\* ------------------------------------------------------------- C3
\* C3 (as claimed): verify returns Ok only if the challenge it is given is
\* challenge(aux, data, commitment) of the arguments it is given (here the
\* untouched aux, data and commitment of the prover).
C3_ChallengeRecomputed ==
    (Untampered /\ Get(result) = Ok) =>
        ChallengeOp(Get(vargs).aux, Get(vargs).data, Get(vargs).comm)
            = Some(Get(vargs).chal)

\* ------------------------------------------------------------- C4
\* C4 (as claimed): in log*, for a witness above 2^(L+EPSILON), every draw and
\* every derived challenge, verify returns RangeCheckFailed(4) on the output
\* of the honest prover.
C4_RangeSoundness ==
    (proto = "log" /\ HonestRun /\ AboveBound) => Get(result) = RangeCheckFailed(4)

\* C4 (amended): in log*, for a witness above 2^(L+EPSILON) and every derived
\* challenge e >= 1, verify never returns Ok and no equality check fails: it
\* returns RangeCheckFailed(4) when z1 = alpha + e*x is below N0, and
\* EncryptionFailed when z1 >= N0; for e = 0 it returns Ok.
C4_RangeSoundnessNonzero ==
    (proto = "log" /\ HonestRun /\ AboveBound) =>
        Get(result) =
            IF Get(chal) = 0 THEN Ok
            ELSE IF Get(proof).z1 < data.key0.n THEN RangeCheckFailed(4)
            ELSE EncryptionFailed

C4_Witness ==
    /\ proto = "log" /\ HonestRun /\ AboveBound /\ ViaComputeProof
    /\ Get(chal) >= 1
    /\ Get(result) = RangeCheckFailed(4)

\* ------------------------------------------------------------- C5
\* C5 (as claimed): in aff-g, for x and y above 2^(L+EPSILON), verify never
\* returns Ok on the output of the honest prover: the five equality checks
\* pass and "range check6" is reported.
C5_RangeSoundness ==
    (proto = "aff" /\ HonestRun /\ AboveBound) => Get(result) = RangeCheck(6)

\* C5 (amended): in aff-g, for x and y above 2^(L+EPSILON) and every challenge
\* e >= 1, verify never returns Ok and no equality check fails: it reports
\* "range check6" when z1 and z2 are below N0 and z2 is below N1, and
\* aborts in the unwrap of the Paillier result otherwise; for e = 0 it
\* returns Ok.
C5_RangeSoundnessNonzero ==
    (proto = "aff" /\ HonestRun /\ AboveBound) =>
        Get(result) =
            IF Get(chal) = 0 THEN Ok
            ELSE IF /\ Get(proof).z1 < data.key0.n
                    /\ Get(proof).z2 < data.key0.n
                    /\ Get(proof).z2 < data.key1.n
                 THEN RangeCheck(6)
            ELSE Panic

C5_Witness ==
    /\ proto = "aff" /\ HonestRun /\ AboveBound /\ ViaComputeProof
    /\ Get(chal) >= 1
    /\ Get(result) = RangeCheck(6)

\* ------------------------------------------------------------- C6
\* How check i stands on the arguments of verify: "pass", "fail", or "noenc"
\* when the Paillier value it compares is absent.
LogStatus(i, v, pf) ==
    CASE i = 1 -> IF ~IsSome(LogLhs1(v.data, pf)) THEN "noenc"
                  ELSE IF LogCheck1(v.data, v.comm, v.chal, pf) THEN "pass" ELSE "fail"
      [] i = 2 -> IF LogCheck2(v.data, v.comm, v.chal, pf) THEN "pass" ELSE "fail"
      [] i = 3 -> IF LogCheck3(v.aux, v.comm, v.chal, pf) THEN "pass" ELSE "fail"
      [] i = 4 -> IF LogCheck4(pf) THEN "pass" ELSE "fail"

AffStatus(i, v, pf) ==
    CASE i = 1 -> IF ~IsSome(AffLhs1(v.data, pf)) THEN "noenc"
                  ELSE IF AffCheck1(v.data, v.comm, v.chal, pf) THEN "pass" ELSE "fail"
      [] i = 2 -> IF AffCheck2(v.data, v.comm, v.chal, pf) THEN "pass" ELSE "fail"
      [] i = 3 -> IF ~IsSome(AffLhs3(v.data, pf)) THEN "noenc"
                  ELSE IF AffCheck3(v.data, v.comm, v.chal, pf) THEN "pass" ELSE "fail"
      [] i = 4 -> IF AffCheck4(v.aux, v.comm, v.chal, pf) THEN "pass" ELSE "fail"
      [] i = 5 -> IF AffCheck5(v.aux, v.comm, v.chal, pf) THEN "pass" ELSE "fail"
      [] i = 6 -> IF AffCheck6(pf) THEN "pass" ELSE "fail"
      [] i = 7 -> IF AffCheck7(pf) THEN "pass" ELSE "fail"

NumChecks == IF proto = "log" THEN 4 ELSE 7
NumEqualities == IF proto = "log" THEN 3 ELSE 5
Status(i) ==
    IF proto = "log" THEN LogStatus(i, Get(vargs), Get(proof))
    ELSE AffStatus(i, Get(vargs), Get(proof))
\* The checks that do not pass
Violated == {i \in 1..NumChecks : Status(i) # "pass"}
Lowest(S) == CHOOSE i \in S : \A j \in S : i <= j
\* The error that names check i
Names(i) ==
    IF proto = "log"
    THEN (IF i <= 3 THEN EqualityCheckFailed(i) ELSE RangeCheckFailed(i))
    ELSE (IF i <= 5 THEN Check(i) ELSE RangeCheck(i))
NoEncryption == IF proto = "log" THEN EncryptionFailed ELSE Panic

C7_Binding ==
    (/\ Verified
     /\ Get(vargs).tamper \notin {"none", "chal+1"}
     /\ VerifyOp(aux, data, Get(comm), Get(chal), Get(proof)) = Ok)
        => Get(result) # Ok


\* ------------------------------------------------------------- C8
\* The bytes the claim has challenge absorb: aux (s, t, rsa_modulo), then the
\* data, then the commitment.
ClaimedBytes ==
    IF proto = "log"
    THEN ToBytes(aux.s) \o ToBytes(aux.t) \o ToBytes(aux.rsa_modulo)
         \o ToBytes(data.key0.n) \o ToBytes(data.c) \o PointBytes(data.x)
         \o ToBytes(Get(comm).s) \o ToBytes(Get(comm).a)
         \o PointBytes(Get(comm).y) \o ToBytes(Get(comm).d)
    ELSE ToBytes(aux.s) \o ToBytes(aux.t) \o ToBytes(aux.rsa_modulo)
         \o ToBytes(data.g) \o ToBytes(data.q) \o ToBytes(data.key0.n)
         \o ToBytes(data.key1.n) \o ToBytes(data.c) \o ToBytes(data.d)
         \o ToBytes(data.y) \o ToBytes(data.x)
         \o ToBytes(Get(comm).a) \o ToBytes(Get(comm).b_x)
         \o ToBytes(Get(comm).b_y) \o ToBytes(Get(comm).e)
         \o ToBytes(Get(comm).s) \o ToBytes(Get(comm).f)
         \o ToBytes(Get(comm).t)

\* C8: a challenge obtained from challenge (or inside compute_proof) is the
\* hash (keyed by the tag in log*) of the bytes of aux, data and commitment in
\* that fixed order and of nothing else: equal arguments give equal
\* challenges.
C8_ChallengeDeterminism ==
    csrc = "hash" =>
        chal = IF proto = "log"
               THEN HashToScalar(hkey, Tag, ClaimedBytes)
               ELSE Some(Sha(hkey, ClaimedBytes))

\* challenge was called again, after a prove, on the same arguments
C8_Witness ==
    /\ proto = "log" /\ csrc = "hash" /\ pc = "challenged" /\ proves = 1
    /\ Get(chal) >= 1

\* ------------------------------------------------------------- C9
\* C9 (as claimed): a PrivateCommitment is used by at most one prove call, so
\* it answers at most one challenge.
C9_SingleUse == Cardinality(answered) <= 1

\* ------------------------------------------------------------- C10
\* C10 (as claimed, the verify half): verify returns a value, Ok or an
\* error, on every input; a Paillier rejection is not an abort.
C10_VerifyReturnsValue == Verified => Get(result) # Panic

\* ------------------------------------------------------------- C11
\* What the caller holds after calling commit, challenge and prove one after
\* the other with the draws rnd, stopping at the first failure.
Composition(rnd) ==
    LET c == CommitOp(rnd) IN
    IF c.err # Ok
    THEN [ret |-> c.err, comm |-> None, chal |-> None, proof |-> None]
    ELSE LET e == ChallengeOp(aux, data, Get(c.comm)) IN
         IF ~IsSome(e)
         THEN [ret |-> HashFailed, comm |-> None, chal |-> None, proof |-> None]
         ELSE [ret |-> Ok, comm |-> c.comm, chal |-> e,
               proof |-> Some(ProveOp(Get(c.pcomm), Get(e)))]

\* C11: every call of compute_proof returns what commit, challenge and prove
\* return when called in that order with the same draws: the challenge of
\* the returned commitment, the proof of the masks of that commit call for
\* that challenge; a failure of commit or of challenge is returned as it is,
\* with no commitment, challenge or proof.
C11_ComputeProofIsComposition ==
    [][ComputeProof =>
        \E rnd \in Draws :
            LET o == Composition(rnd) IN
            /\ ret' = o.ret /\ comm' = o.comm /\ chal' = o.chal
            /\ proof' = o.proof]_vars

\* compute_proof returned a proof for a challenge other than 0 in log*
C11_Witness ==
    /\ proto = "log" /\ ViaComputeProof /\ pc = "proved" /\ ret = Ok
    /\ Get(chal) >= 1 /\ pdata.x >= 1
    /\ Get(chal) = Get(ChallengeOp(aux, data, Get(comm)))

\* ------------------------------------------------------------- C12
\* C12: only commit (alone or inside compute_proof) draws from the random
\* source; no call changes the aux, data, pdata, commitment or
\* PrivateCommitment it is given (a commitment and its masks change hands
\* only where commit creates them); and what challenge, prove and verify
\* return is a function of their arguments, what commit returns a function
\* of its arguments and its draws.
C12_Purity ==
    [][/\ aux' = aux /\ data' = data /\ pdata' = pdata
       /\ rng' # rng => (Commit \/ ComputeProof)
       /\ comm' # comm => (Commit \/ ComputeProof)
       /\ pcomm' # pcomm => Commit
       /\ Commit => \E rnd \in Draws :
                        /\ comm' = CommitOp(rnd).comm
                        /\ pcomm' = CommitOp(rnd).pcomm
                        /\ ret' = CommitOp(rnd).err
       /\ (Challenge /\ ret' = Ok) => chal' = ChallengeOp(aux, data, Get(comm))
       /\ Prove => proof' = Some(ProveOp(Get(pcomm), Get(chal)))
       /\ Verify => result' = Some(VerifyOp(Get(vargs').aux, Get(vargs').data,
                                            Get(vargs').comm, Get(vargs').chal,
                                            Get(proof)))]_vars

\* commit, prove, challenge, prove and verify have run on one set of masks,
\* with the draws of the one commit call only
C12_Witness ==
    /\ Verified /\ proves = 2 /\ IsSome(pcomm)
    /\ rng = Cardinality(DOMAIN Get(pcomm))

\* ------------------------------------------------------------- C13
\* v is a draw of [0, bound)
Below(v, bound) == 0 <= v /\ v < bound
\* v is invertible modulo n
Unit(v, n) == Below(v, n) /\ Gcd(v, n) = 1

\* C13: the masks of every PrivateCommitment commit returned are in their
\* ranges: alpha (and beta) below 2^(L+EPSILON), gamma (and delta) below
\* 2^(L+EPSILON) * rsa_modulo, mu (and m) below 2^L * rsa_modulo, r a unit
\* modulo N0 (and r_y modulo N1); and the call made one draw for each mask.
C13_MaskRanges ==
    IsSome(pcomm) =>
        LET k == Get(pcomm)
            wide == TwoToLE * aux.rsa_modulo
            mid == TwoToL * aux.rsa_modulo IN
        /\ Below(k.alpha, TwoToLE) /\ Below(k.gamma, wide) /\ Below(k.mu, mid)
        /\ Unit(k.r, data.key0.n)
        /\ proto = "aff" =>
               /\ Below(k.beta, TwoToLE) /\ Below(k.delta, wide)
               /\ Below(k.m, mid) /\ Unit(k.r_y, data.key1.n)
        /\ rng = Cardinality(DOMAIN k)

\* commit returned masks of which alpha is the largest value of its range
\* and mu is not: the draws do not move together
C13_Witness ==
    /\ proto = "log" /\ pc = "committed" /\ IsSome(pcomm)
    /\ Get(pcomm).alpha = TwoToLE - 1
    /\ Get(pcomm).mu = 1
    /\ Get(pcomm).gamma = TwoToLE * aux.rsa_modulo - 1

\* ------------------------------------------------------------- C14
\* r * nonce^e mod n
MaskedNonce(r, nonce, e, n) == (r * ModPow(nonce, e, n)) % n

\* C14: the proof the caller holds is, for the masks k and the challenge e
\* it was made from: z1 = alpha + e*x and z3 = gamma + e*(mask of S) as
\* integers, not reduced, and the nonce response r * nonce^e mod N0; in
\* aff-g also z2 = beta + e*y, z4 = delta + e*(mask of T) and
\* w_y = r_y * nonce_y^e mod N1, where S commits to x with the mask m and T
\* to y with the mask mu.
C14_ResponseFormulas ==
    (IsSome(proof) /\ IsSome(pcomm)) =>
        LET k == Get(pcomm)
            e == Get(chal)
            z == Get(proof)
            n == aux.rsa_modulo IN
        IF proto = "log"
        THEN /\ z.z1 = k.alpha + e * pdata.x
             /\ z.z2 = MaskedNonce(k.r, pdata.nonce, e, data.key0.n)
             /\ z.z3 = k.gamma + e * k.mu
             /\ Get(comm).s = combine(aux.s, pdata.x, aux.t, k.mu, n)
        ELSE /\ z.z1 = k.alpha + e * pdata.x
             /\ z.z2 = k.beta + e * pdata.y
             /\ z.z3 = k.gamma + e * k.m
             /\ z.z4 = k.delta + e * k.mu
             /\ z.w = MaskedNonce(k.r, pdata.nonce, e, data.key0.n)
             /\ z.w_y = MaskedNonce(k.r_y, pdata.nonce_y, e, data.key1.n)
             /\ Get(comm).s = combine(aux.s, pdata.x, aux.t, k.m, n)
             /\ Get(comm).t = combine(aux.s, pdata.y, aux.t, k.mu, n)

\* aff-g prove answered a challenge other than 0 with masks m # mu, and z3
\* is beyond the range of gamma and z1 beyond N0: nothing was reduced
C14_Witness ==
    /\ proto = "aff" /\ IsSome(proof) /\ IsSome(pcomm) /\ Get(chal) >= 1
    /\ Get(pcomm).m # Get(pcomm).mu
    /\ Get(proof).z3 >= TwoToLE * aux.rsa_modulo
    /\ Get(proof).z1 >= data.key0.n

\* ------------------------------------------------------------- C15
\* Every equality check of the verify call passed
EqualitiesPass == \A i \in 1..NumEqualities : Status(i) = "pass"

\* C15: when every equality check passes, verify accepts exactly the
\* responses z1 (and z2 in aff-g) that are at most 2^(L+EPSILON), the bound
\* itself included, and rejects any other with the range failure of the
\* first response above the bound; z1 and z2 have the same bound.
C15_InclusiveBound ==
    (Verified /\ EqualitiesPass) =>
        LET z == Get(proof)
            bound == Pow2(L + EPSILON) IN
        Get(result) =
            IF proto = "log"
            THEN (IF z.z1 <= bound THEN Ok ELSE RangeCheckFailed(4))
            ELSE (IF z.z1 >= bound + 1 THEN RangeCheck(6)
                  ELSE IF z.z2 >= bound + 1 THEN RangeCheck(7)
                  ELSE Ok)

\* aff-g verify accepted responses z1 and z2 that are both exactly the bound
C15_Witness ==
    /\ proto = "aff" /\ Verified /\ EqualitiesPass
    /\ Get(proof).z1 = Pow2(L + EPSILON)
    /\ Get(proof).z2 = Pow2(L + EPSILON)
    /\ Get(result) = Ok

\* ------------------------------------------------------------- C16
\* Every Paillier call of the verify call returned a value
PaillierSucceeds == \A i \in 1..NumEqualities : Status(i) # "noenc"

\* C16: whatever the challenge (hashed or chosen by the caller, below the
\* curve order or not) and whatever the size of the witness, verify on the
\* untouched output of commit and prove finds every equality check
\* satisfied when its Paillier calls succeed, and never returns the failure
\* of an equality check: it returns Ok, a range failure, or the failure of
\* a Paillier call.
C16_EqualitiesAlwaysHold ==
    Untampered =>
        /\ PaillierSucceeds => EqualitiesPass
        /\ \A i \in 1..NumEqualities : Get(result) # Names(i)

\* log* verify passed the three equalities for a witness above
\* 2^(L+EPSILON) and a chosen challenge above the curve order, and rejected
\* on the range
C16_Witness ==
    /\ proto = "log" /\ Untampered /\ csrc = "pick"
    /\ Get(chal) >= CurveOrder + 1
    /\ AboveBound /\ PaillierSucceeds /\ EqualitiesPass
    /\ Get(result) = RangeCheckFailed(4)

====
